---- MODULE Spec2Model ----
(***************************************************************************)
(* Model of mail_time_check.py: one run of main from the command line to   *)
(* the exit of the process, with the browser session it sets up and cleans *)
(* up, the extraction-and-classification pipeline (extract_mail_data), the *)
(* contact-time resolver (extract_contact_time), the three-period loop and *)
(* the grouping and ordering done by generate_html_report.                 *)
(*                                                                         *)
(* Text is modelled as sequences of characters.  The characters are named  *)
(* by ASCII strings:                                                       *)
(*   "k"     an ordinary non-blank, non-digit character (a kanji)          *)
(*   "tsui"  the follow-up glyph (U+8FFD)                                  *)
(*   "sama"  the honorific (U+69D8)                                        *)
(*   "0" "5" "9"  ASCII digits ("1" "2" "4" in arguments too)              *)
(*   "fw5"   the full-width digit five (U+FF15): matched by \d and read by *)
(*           int() in Python 3, not matched by [0-9]                       *)
(*   "sp"    the ASCII space,  "fwsp" the full-width space (U+3000)        *)
(*   "gatsu" the month character (U+6708)                                  *)
(*   "NL"    the newline,  "BR" the four characters <br>                   *)
(*   "L"     the label of the contact time in the call-content cell        *)
(* A URL is a sequence of path parts, "h" the host; the parts "LOGIN" and   *)
(* "login" differ in case only.                                            *)
(***************************************************************************)
EXTENDS Naturals, Sequences, FiniteSets

(***************************************************************************)
(* Bounds of the model.                                                    *)
(***************************************************************************)
\* longest family name enumerated by the name specification
MaxFamilyLen == 3
\* most mail fragments one run of the pipeline specification sees
MaxMails == 2
\* most pieces the contact-time value of the resolver specification is made of
MaxChunks == 2

(***************************************************************************)
(* Character classes of Python 3's re module on str patterns.              *)
(***************************************************************************)
\* \s, and the explicit U+3000 of the class [\s<U+3000>]
IsSpace(c) == c \in {"sp", "fwsp"}

\* [0-9]: ASCII digits only
IsAsciiDigit(c) == c \in {"0", "1", "2", "4", "5", "9"}

\* \d: every Unicode decimal digit
IsDigit(c) == c \in {"0", "1", "2", "4", "5", "9", "fw5"}

\* the value int() gives a decimal digit
DigitVal(c) ==
  CASE c = "0" -> 0 [] c = "1" -> 1 [] c = "2" -> 2 [] c = "4" -> 4
    [] c = "9" -> 9 [] OTHER -> 5

\* int(str) of a run of decimal digits
RECURSIVE IntOf(_)
IntOf(s) ==
  IF s = <<>> THEN 0
  ELSE 10 * IntOf(SubSeq(s, 1, Len(s) - 1)) + DigitVal(s[Len(s)])

\* str.strip(): drop the leading and the trailing whitespace
RECURSIVE Strip(_)
Strip(s) ==
  IF s = <<>> THEN s
  ELSE IF IsSpace(s[1]) THEN Strip(Tail(s))
  ELSE IF IsSpace(s[Len(s)]) THEN Strip(SubSeq(s, 1, Len(s) - 1))
  ELSE s

\* the last index of the run of non-blank characters that holds index p
RECURSIVE RunEnd(_, _)
RunEnd(s, p) ==
  IF p < Len(s) /\ ~IsSpace(s[p + 1]) THEN RunEnd(s, p + 1) ELSE p

(***************************************************************************)
(* The Name Pattern  (\S+)[\s<U+3000>](\S+)[\s<U+3000>]<sama>  tried at    *)
(* start position p.  Each \S+ is greedy and is followed by a blank, so a  *)
(* group that matches ends at the end of its run of non-blank characters.  *)
(***************************************************************************)
NameMatchAtDirect(s, p) ==
  /\ p \in 1..Len(s)
  /\ ~IsSpace(s[p])
  /\ LET a == RunEnd(s, p) IN
       /\ a + 2 <= Len(s)
       /\ IsSpace(s[a + 1])
       /\ ~IsSpace(s[a + 2])
       /\ \E x \in (a + 3)..RunEnd(s, a + 2) : s[x] = "sama"

NameMatchAt(s, p) ==
  /\ p \in 1..Len(s)
  /\ ~IsSpace(s[p])
  /\ LET a == RunEnd(s, p) IN
       /\ a + 2 <= Len(s)
       /\ IsSpace(s[a + 1])
       /\ ~IsSpace(s[a + 2])
       /\ LET b == RunEnd(s, a + 2) IN
            /\ b + 2 <= Len(s)
            /\ IsSpace(s[b + 1])
            /\ s[b + 2] = "sama"

\* re.search: the leftmost start position at which the pattern matches
NameSearch(s) ==
  LET starts == {p \in 1..Len(s) : NameMatchAt(s, p)} IN
  IF starts = {} THEN [matched |-> FALSE, family_name |-> <<>>, given_name |-> <<>>]
  ELSE LET p == CHOOSE q \in starts : \A r \in starts : q <= r
           a == RunEnd(s, p)
           b == RunEnd(s, a + 2)
       IN [matched |-> TRUE,
           family_name |-> SubSeq(s, p, a),
           given_name |-> SubSeq(s, a + 2, b)]

(***************************************************************************)
(* The three tests of the classifier on family_name.                       *)
(***************************************************************************)
\* re.search(r'[0-9]', family_name)
has_number(f) == \E i \in 1..Len(f) : IsAsciiDigit(f[i])

\* the follow-up glyph in family_name
has_tsui(f) == \E i \in 1..Len(f) : f[i] = "tsui"

\* re.match(r'^[^0-9]*0[^0-9]*$', family_name): one '0' and no other ASCII digit
is_zero_only(f) ==
  \E i \in 1..Len(f) :
    /\ f[i] = "0"
    /\ \A j \in 1..Len(f) : j /= i => ~IsAsciiDigit(f[j])

(***************************************************************************)
(* re.search(r'(\d+)(?!.*\d)', family_name): a run of \d that no \d        *)
(* follows, so the run ends at the last \d of the name and, searched from  *)
(* the left, starts where that run starts.  999 when there is no match.    *)
(***************************************************************************)
ExtractNumberAtEnd(f) ==
  LET e == Len(f) IN
  IF f = <<>> \/ ~IsDigit(f[e]) THEN 999
  ELSE LET p == CHOOSE i \in 1..e :
                  /\ \A j \in i..e : IsDigit(f[j])
                  /\ (i = 1 \/ ~IsDigit(f[i - 1]))
       IN IntOf(SubSeq(f, p, e))

ExtractNumber(f) ==
  LET ds == {i \in 1..Len(f) : IsDigit(f[i])} IN
  IF ds = {} THEN 999
  ELSE LET e == CHOOSE i \in ds : \A j \in ds : j <= i
           p == CHOOSE i \in 1..e :
                  /\ \A j \in i..e : IsDigit(f[j])
                  /\ (i = 1 \/ ~IsDigit(f[i - 1]))
       IN IntOf(SubSeq(f, p, e))

(***************************************************************************)
(* re.search(r'(\d+)<gatsu>', text_content): \d+ is greedy and the month   *)
(* character is no digit, so a match takes a whole run of digits, from the *)
(* leftmost digit whose run is directly followed by the month character.   *)
(***************************************************************************)
\* the last index of the run of digits that holds index p
RECURSIVE DigitRunEnd(_, _)
DigitRunEnd(s, p) ==
  IF p < Len(s) /\ IsDigit(s[p + 1]) THEN DigitRunEnd(s, p + 1) ELSE p

MonthSearch(text_content) ==
  LET starts == {p \in 1..Len(text_content) :
                   /\ IsDigit(text_content[p])
                   /\ DigitRunEnd(text_content, p) < Len(text_content)
                   /\ text_content[DigitRunEnd(text_content, p) + 1] = "gatsu"}
  IN IF starts = {} THEN [matched |-> FALSE, group |-> <<>>]
     ELSE LET p == CHOOSE q \in starts : \A r \in starts : q <= r
          IN [matched |-> TRUE,
              group |-> SubSeq(text_content, p, DigitRunEnd(text_content, p))]

\* mail_month = int(month_match.group(1)) if month_match else target_month
MailMonth(text_content, target_month) ==
  LET month_match == MonthSearch(text_content) IN
  IF month_match.matched THEN IntOf(month_match.group) ELSE target_month

(***************************************************************************)
(* int() of a command-line argument: the blanks around the text are        *)
(* dropped, the rest is a non-empty run of decimal digits or int() raises  *)
(* ValueError.                                                             *)
(***************************************************************************)
IsInt(s) ==
  LET t == Strip(s) IN t /= <<>> /\ \A n \in 1..Len(t) : IsDigit(t[n])

ParseInt(s) == IntOf(Strip(s))

(***************************************************************************)
(* Slot labels and the other fixed strings.  A label is a sequence of      *)
(* characters; the hour numbers, "ji" (o'clock) and "kara" (from) are      *)
(* characters of the contact-time text, so that two slot labels can        *)
(* overlap in a text as they do in the source strings.                     *)
(***************************************************************************)
\* the value extract_contact_time returns when it resolves nothing
FUMEI == <<"fumei">>

\* the label of the "not stated" slot
KISAI_NASHI == <<"kisai_nashi">>

SUUJI_TSUKI == <<"suuji_tsuki">>
ITSUDEMO_KANOU == <<"itsudemo_kanou">>
TSUI_M == <<"tsui", "M">>
SONOTA == <<"sonota">>
TAIOU_FUYOU == <<"taiou_fuyou">>

Hour(h) ==
  CASE h = 10 -> "10" [] h = 11 -> "11" [] h = 12 -> "12" [] h = 13 -> "13"
    [] h = 14 -> "14" [] h = 15 -> "15" [] h = 16 -> "16" [] h = 17 -> "17"
    [] h = 18 -> "18" [] h = 19 -> "19" [] h = 20 -> "20"

\* '<h>ji kara <h+1>ji'
Slot(h) == <<Hour(h), "ji", "kara", Hour(h + 1), "ji">>

\* time_patterns of extract_contact_time, in its order
time_patterns == <<ITSUDEMO_KANOU>> \o [n \in 1..10 |-> Slot(n + 9)]

\* the keys of time_slots of generate_html_report
SlotLabels ==
  {SUUJI_TSUKI, KISAI_NASHI, TSUI_M, SONOTA, TAIOU_FUYOU}
    \cup {time_patterns[n] : n \in 1..Len(time_patterns)}

(***************************************************************************)
(* extract_contact_time on the text of the call-content cell.              *)
(***************************************************************************)
\* pattern in text
Contains(text, pattern) ==
  \E p \in 1..(Len(text) + 1) :
    /\ p + Len(pattern) - 1 <= Len(text)
    /\ SubSeq(text, p, p + Len(pattern) - 1) = pattern

\* the label, then lazily anything but a newline, then '<br>' or a newline:
\* group 1 of the leftmost match, or no match
ContactTimeMatch(content_text) ==
  LET n == Len(content_text)
      IsEnd(q) == content_text[q] \in {"NL", "BR"}
      starts == {p \in 1..n : content_text[p] = "L" /\ \E q \in (p + 1)..n : IsEnd(q)}
  IN IF starts = {} THEN [matched |-> FALSE, group |-> <<>>]
     ELSE LET p == CHOOSE x \in starts : \A y \in starts : x <= y
              q == CHOOSE x \in (p + 1)..n :
                     IsEnd(x) /\ \A y \in (p + 1)..(x - 1) : ~IsEnd(y)
          IN [matched |-> TRUE, group |-> SubSeq(content_text, p + 1, q - 1)]

\* the first pattern of time_patterns the text holds, or the text itself
MatchTimePatternsByPosition(contact_time_full) ==
  LET hits == {n \in 1..Len(time_patterns) : Contains(contact_time_full, time_patterns[n])}
      At(n) == CHOOSE p \in 1..Len(contact_time_full) :
                 /\ p + Len(time_patterns[n]) - 1 <= Len(contact_time_full)
                 /\ SubSeq(contact_time_full, p, p + Len(time_patterns[n]) - 1)
                      = time_patterns[n]
                 /\ \A q \in 1..(p - 1) :
                      SubSeq(contact_time_full, q, q + Len(time_patterns[n]) - 1)
                        /= time_patterns[n]
  IN IF hits = {} THEN contact_time_full
     ELSE time_patterns[CHOOSE n \in hits : \A m \in hits : At(n) <= At(m)]

MatchTimePatterns(contact_time_full) ==
  LET hits == {n \in 1..Len(time_patterns) : Contains(contact_time_full, time_patterns[n])}
  IN IF hits = {} THEN contact_time_full
     ELSE time_patterns[CHOOSE n \in hits : \A m \in hits : n <= m]

\* page is "error" when loading it or finding the cell raises or times out,
\* and the text of the cell otherwise
extract_contact_time_not_stated(page) ==
  IF page = <<"error">> THEN KISAI_NASHI
  ELSE LET m == ContactTimeMatch(page) IN
       IF m.matched THEN MatchTimePatterns(Strip(m.group)) ELSE KISAI_NASHI

extract_contact_time(page) ==
  IF page = <<"error">> THEN FUMEI
  ELSE LET m == ContactTimeMatch(page) IN
       IF m.matched THEN MatchTimePatterns(Strip(m.group)) ELSE FUMEI

(***************************************************************************)
(* Records are Python dicts: functions from keys to values.                *)
(***************************************************************************)
HasKey(d, k) == k \in DOMAIN d

\* d.get(k, default)
Get(d, k, default) == IF k \in DOMAIN d THEN d[k] ELSE default

\* d[k] = v
SetKey(d, k, v) == [x \in DOMAIN d \cup {k} |-> IF x = k THEN v ELSE d[x]]

(***************************************************************************)
(* sorted() and list.sort(): stable, ascending by key.  keys[n] is the key *)
(* of seq[n], a tuple of integers; tuples compare left to right.           *)
(***************************************************************************)
RECURSIVE TupleLess(_, _)
TupleLess(a, b) ==
  IF a = <<>> THEN FALSE
  ELSE a[1] < b[1] \/ (a[1] = b[1] /\ TupleLess(Tail(a), Tail(b)))

StableSort(seq, keys) ==
  LET n == Len(seq)
      Before(a, b) == TupleLess(keys[a], keys[b]) \/ (keys[a] = keys[b] /\ a < b)
      Rank(a) == 1 + Cardinality({b \in 1..n : Before(b, a)})
  IN [r \in 1..n |-> seq[CHOOSE a \in 1..n : Rank(a) = r]]

\* key=lambda x: x.get('extracted_number', 999)
NumberKey(x) == <<Get(x, "extracted_number", 999)>>

\* key=lambda x: (x.get('year', 0), x.get('month', 0))
YearMonthKey(x) == <<Get(x, "year", 0), Get(x, "month", 0)>>

(***************************************************************************)
(* The inputs.  A mail fragment (a p.res_mail element) is the first line   *)
(* of its text, the text its name is taken from (the part of innerHTML     *)
(* between the first <br> and </a>, or the second line of its text),       *)
(* whether it holds the <a> element its URL is read from, and what opening *)
(* that URL in a new tab yields while the page is extracted: "timeout"     *)
(* when loading raises, "nocell" when the responder cell is not found, and *)
(* the words of the responder cell otherwise.                              *)
(***************************************************************************)
Mail(head, name_src, anchor, detail) ==
  [head |-> head, name_src |-> name_src, anchor |-> anchor, detail |-> detail]

\* a fragment without a month in its text and without a responder cell
Fragment(name_src, anchor) == Mail(<<"k">>, name_src, anchor, <<"nocell">>)

\* element.text: the first line, a newline, the line of the name
TextContent(e) == e.head \o <<"NL">> \o e.name_src

NonBlank == {"k", "tsui", "sama", "0", "5", "9", "fw5"}

\* the non-empty sequences of non-blank characters, up to n long
Tokens(n) == UNION {[1..m -> NonBlank] : m \in 1..n}

\* a name of the name specification: a family name, a blank, a given name,
\* a blank or none, and the honorific or another character
NameInput(lead, f, s1, s2, last) == lead \o f \o <<s1>> \o <<"k">> \o s2 \o <<last>>

\* fragments of the pipeline specification: a plain name in a text that
\* names the month 5, the day 5 with a responder, the day 50 without the
\* responder cell, the day 5 whose detail page fails to load, a follow-up
\* name in a text that names the month 5, a zero name, a name without the
\* blank before the honorific, and a fragment without its <a> element
PipelineFragments ==
  LET given == <<"sp", "k", "sp", "sama">> IN
  {Mail(<<"5", "gatsu">>, <<"k">> \o given, TRUE, <<"nocell">>),
   Mail(<<"k">>, <<"k", "5">> \o given, TRUE, <<"day", "time", "k">>),
   Mail(<<"k">>, <<"5", "0">> \o given, TRUE, <<"nocell">>),
   Mail(<<"k">>, <<"k", "5">> \o given, TRUE, <<"timeout">>),
   Mail(<<"5", "gatsu">>, <<"tsui">> \o given, TRUE, <<"nocell">>),
   Mail(<<"k">>, <<"k", "0">> \o given, TRUE, <<"nocell">>),
   Fragment(<<"k", "sp", "k", "sama">>, TRUE),
   Fragment(<<"k", "sp", "k", "sp", "sama">>, FALSE)}

\* the pages of at most n fragments
Pages(n) == UNION {[1..m -> PipelineFragments] : m \in 0..n}

\* what loading a detail page yields: an error or a timeout, or the text of
\* the call-content cell (without the label, with an empty value, with a
\* slot, with free text, with free text that is the label of a section)
DetailPages ==
  {<<"error">>,
   <<"x", "NL">>,
   <<"L", "sp", "NL", "x">>,
   <<"L", "14", "ji", "kara", "15", "ji", "NL">>,
   <<"L", "x", "NL">>,
   <<"L", "tsui", "M", "NL">>}

\* the pieces a contact-time value of the resolver specification is made
\* of: three canonical labels, the end of a label that overlaps the one
\* before it, an ordinary character and a blank
Chunks ==
  {ITSUDEMO_KANOU, Slot(10), Slot(14), <<"kara", "16", "ji">>, <<"x">>, <<"sp">>}

\* the values of at most n pieces
RECURSIVE Values(_)
Values(n) ==
  IF n = 0 THEN {<<>>}
  ELSE Values(n - 1) \cup {v \o c : v \in Values(n - 1), c \in Chunks}

\* the call-content texts of the resolver specification for lookup n + 1:
\* a line or none, the label, a value, a line break or none, a line or none
DetailTexts(n) ==
  IF n = 0
  THEN {pre \o <<"L">> \o v \o term \o post :
          pre \in {<<>>, <<"x", "NL">>}, v \in Values(MaxChunks),
          term \in {<<>>, <<"NL">>, <<"BR">>},
          post \in {<<>>, ITSUDEMO_KANOU \o <<"NL">>}}
  ELSE {<<"error">>}

\* the date of the run when the command line has no arguments
StartYears == {2024}
StartMonths == {10, 11, 12}

\* sys.argv[1:]: nothing, or a year and a month
Argvs ==
  {<<>>}
    \cup {<<<<"2", "0", "2", "4">>, m>> :
            m \in {<<"1", "0">>, <<"1", "1">>, <<"sp", "1", "2">>, <<"1", "k">>}}

(***************************************************************************)
(* extract_mail_data: one element of the page.                             *)
(***************************************************************************)
\* the if/elif chain on has_tsui, is_zero_only, has_number
ClassifyNumberFirst(family_name) ==
  IF has_number(family_name) THEN "number"
  ELSE IF has_tsui(family_name) THEN "tsuim"
  ELSE IF is_zero_only(family_name) THEN "zero"
  ELSE "normal"

Classify(family_name) ==
  IF has_tsui(family_name) THEN "tsuim"
  ELSE IF is_zero_only(family_name) THEN "zero"
  ELSE IF has_number(family_name) THEN "number"
  ELSE "normal"

\* the lists a record of a bucket is appended to: each branch appends to its
\* list and ends with continue, the normal append is what is left
AppendTargetsFallThrough(bucket) ==
  IF bucket = "normal" THEN {"normal"} ELSE {bucket, "normal"}

AppendTargets(bucket) == {bucket}

\* the windows of the browser: how many are open and which has the focus
\* (window_handles[0] is window 1)
Windows(handles, focus) == [handles |-> handles, focus |-> focus]

\* the responder lookup of a numeric record: a new tab is opened and
\* focused, the URL is loaded in it, the responder is the text of the cell
\* from its third word on, the tab is closed and the first window focused;
\* when opening or loading raises, the tab stays open and focused
ResponderLookup(detail, w) ==
  LET opened == Windows(w.handles + 1, w.handles + 1)
      closed == Windows(w.handles, 1)
  IN IF detail = <<"timeout">> THEN [responder_name |-> <<>>, w |-> opened]
     ELSE IF detail = <<"nocell">> THEN [responder_name |-> <<>>, w |-> closed]
     ELSE [responder_name |-> IF Len(detail) > 2
                              THEN SubSeq(detail, 3, Len(detail)) ELSE <<>>,
           w |-> closed]

\* the body of the loop for element n of the page of period k (the month
\* target_month), found in window list_window, with the windows w: the outcome ("error" when the
\* element raises, "nomatch" when the Name Pattern rejects it, the bucket
\* otherwise), the local family_name, the record and the windows after it.
\* An element can be read only while the window it was found in has the
\* focus; get_attribute raises otherwise.
ProcessElement(e, k, target_month, n, list_window, w) ==
  IF w.focus /= list_window \/ ~e.anchor
  THEN [outcome |-> "error", family_name |-> <<>>, rec |-> <<>>, w |-> w]
  ELSE LET name_part == Strip(e.name_src)
           match == NameSearch(name_part)
           href == [period |-> k, pos |-> n]
           base == [url |-> href, name |-> Strip(name_part),
                    mail_month |-> MailMonth(TextContent(e), target_month)]
       IN IF ~match.matched
          THEN [outcome |-> "nomatch", family_name |-> <<>>, rec |-> <<>>, w |-> w]
          ELSE LET bucket == Classify(match.family_name)
                   lookup == ResponderLookup(e.detail, w)
               IN [outcome |-> bucket,
                   family_name |-> match.family_name,
                   rec |-> IF bucket = "number"
                           THEN SetKey(SetKey(base, "extracted_number",
                                              ExtractNumber(match.family_name)),
                                       "responder", lookup.responder_name)
                           ELSE base,
                   w |-> IF bucket = "number" THEN lookup.w ELSE w]

\* the windows after the elements whose results are given
WindowsAfter(results, w) == IF results = <<>> THEN w ELSE results[Len(results)].w

\* one more turn of the loop: the result of element e after those given
NextElementNumberedByPosition(results, e, k, target_month, list_window, w) ==
  Append(results,
         LET r == ProcessElement(e, k, target_month, Len(results) + 1, list_window,
                                 WindowsAfter(results, w))
         IN IF r.outcome = "number"
            THEN [r EXCEPT !.rec = SetKey(@, "extracted_number", Len(results) + 1)]
            ELSE r)

NextElement(results, e, k, target_month, list_window, w) ==
  Append(results,
         ProcessElement(e, k, target_month, Len(results) + 1, list_window,
                        WindowsAfter(results, w)))

\* the loop over the elements 1..n of the page
RECURSIVE ProcessElements(_, _, _, _, _, _)
ProcessElements(page, k, target_month, n, list_window, w) ==
  IF n = 0 THEN <<>>
  ELSE NextElement(ProcessElements(page, k, target_month, n - 1, list_window, w),
                   page[n], k, target_month, list_window, w)

\* the records appended to the list of bucket b, in page order
RECURSIVE Collect(_, _)
Collect(results, b) ==
  IF results = <<>> THEN <<>>
  ELSE LET r == results[1] IN
       (IF r.outcome \in {"error", "nomatch"} \/ b \notin AppendTargets(r.outcome)
        THEN <<>> ELSE <<r.rec>>) \o Collect(Tail(results), b)

\* sorted(number_name_data or [], key=extracted_number)
SortNumberNameDataUnstable(d) ==
  StableSort(d, [n \in DOMAIN d |-> NumberKey(d[n]) \o <<Len(d) - n>>])

SortNumberNameData(d) == StableSort(d, [n \in DOMAIN d |-> NumberKey(d[n])])

\* what extract_mail_data returns after the loop, with the windows it leaves
\* and the locals of the loop
Returned(results, w) ==
  [w |-> WindowsAfter(results, w),
   locals |-> [n \in DOMAIN results |->
                 [outcome |-> results[n].outcome, family_name |-> results[n].family_name]],
   extracted_data |-> Collect(results, "normal"),
   number_name_data |-> SortNumberNameData(Collect(results, "number")),
   tsuim_name_data |-> Collect(results, "tsuim"),
   zero_name_data |-> Collect(results, "zero")]

\* the mail list is loaded in the focused window, its elements are found
\* there
extract_mail_data(page, k, target_month, w) ==
  Returned(ProcessElements(page, k, target_month, Len(page), w.focus, w), w)

(***************************************************************************)
(* generate_html_report: the grouping into time_slots and the order of     *)
(* each section.                                                           *)
(***************************************************************************)
\* "suuji_tsuki": sorted(number_name_data or [], key=extracted_number)
ReportNumberSectionUnsorted(number_name_data) == number_name_data

ReportNumberSection(number_name_data) ==
  StableSort(number_name_data,
             [n \in DOMAIN number_name_data |-> NumberKey(number_name_data[n])])

\* slot_data.sort(key=lambda x: (x.get('year', 0), x.get('month', 0)))
SectionSortByMonth(slot_data) ==
  StableSort(slot_data, [n \in DOMAIN slot_data |-> <<Get(slot_data[n], "month", 0)>>])

SectionSortByMonthYear(slot_data) ==
  StableSort(slot_data,
             [n \in DOMAIN slot_data |->
                <<Get(slot_data[n], "month", 0), Get(slot_data[n], "year", 0)>>])

SectionSort(slot_data) ==
  StableSort(slot_data, [n \in DOMAIN slot_data |-> YearMonthKey(slot_data[n])])

\* one record of data_list as the grouping loop leaves it: fumei becomes
\* kisai_nashi in the record itself
Normalised(data) ==
  IF Get(data, "contact_time", KISAI_NASHI) = FUMEI
  THEN SetKey(data, "contact_time", KISAI_NASHI)
  ELSE data

\* the section the grouping loop appends a record to
SectionOfKnownLabel(data) ==
  LET contact_time == Get(Normalised(data), "contact_time", KISAI_NASHI) IN
  IF contact_time \in SlotLabels THEN contact_time ELSE <<"none">>

SectionOf(data) ==
  LET contact_time == Get(Normalised(data), "contact_time", KISAI_NASHI) IN
  IF contact_time \in SlotLabels THEN contact_time ELSE SONOTA

\* the records of data_list appended to section label, in the order of the list
RECURSIVE Appended(_, _)
Appended(data_list, label) ==
  IF data_list = <<>> THEN <<>>
  ELSE (IF SectionOf(data_list[1]) = label THEN <<Normalised(data_list[1])>> ELSE <<>>)
         \o Appended(Tail(data_list), label)

\* time_slots when the sections are rendered: the initial lists, the records
\* the grouping loop appended, and the sort of every section but the numeric
GroupedSlots(data_list, number_name_data, tsuim_name_data, zero_name_data) ==
  [label \in SlotLabels |->
     LET initial == IF label = SUUJI_TSUKI THEN ReportNumberSection(number_name_data)
                    ELSE IF label = TSUI_M THEN tsuim_name_data
                    ELSE IF label = TAIOU_FUYOU THEN zero_name_data
                    ELSE <<>>
         slot_data == initial \o Appended(data_list, label)
     IN IF label = SUUJI_TSUKI THEN slot_data ELSE SectionSort(slot_data)]

\* the period the report is titled with: the start, and the end two months
\* later, in the next year when that month passes December
end_month_same_year(start_year, start_month) ==
  LET end_month == start_month + 2 IN
  IF end_month > 12 THEN <<start_year, end_month - 12>> ELSE <<start_year, end_month>>

end_of(start_year, start_month) ==
  LET end_month == start_month + 2 IN
  IF end_month > 12 THEN <<start_year + 1, end_month - 12>> ELSE <<start_year, end_month>>

report_title_of(start_year, start_month) ==
  <<start_year, start_month>> \o end_of(start_year, start_month)

(***************************************************************************)
(* The session: URLs are sequences of path parts, "h" the host.            *)
(***************************************************************************)
LOGIN == <<"LOGIN">>

\* str.upper() of a URL
Upper(url) ==
  [n \in DOMAIN url |->
     CASE url[n] \in {"login", "LOGIN"} -> "LOGIN" [] url[n] = "h" -> "H" [] OTHER -> url[n]]

\* the URL of the login page, BASE_URL/CAL/monthly_m.php and the mail list
HomeUrl == <<"h", "CAL">>

mail_url == <<"h", "CAL", "mail">>

\* the pages the site can show after the form is submitted or after the
\* manual redirect
Urls == {<<"h", "LOGIN">>, <<"h", "login">>, HomeUrl}

\* the calls of the check of auto_login that can raise TimeoutException
Timeouts == {"none", "current_url", "page_source"}

\* the handler of TimeoutException of the check: the URL is read again and
\* searched for 'LOGIN' as it is written
LoginCheckAfterTimeout(url) == IF Contains(url, LOGIN) THEN "raise" ELSE "True"

\* the check of the URL after the login: "True" or "raise"
LoginCheck(url, timeout) ==
  IF timeout = "current_url" THEN LoginCheckAfterTimeout(url)
  ELSE IF Contains(Upper(url), LOGIN)
       THEN IF timeout = "page_source" THEN LoginCheckAfterTimeout(url) ELSE "raise"
       ELSE "True"

\* auto_login(driver): the login page loads or not, the form is found or
\* not, the form is submitted and the site shows submitted; on a LOGIN page
\* the home page is requested once and the site shows redirected
auto_login(loaded, form, submitted, redirected, timeout) ==
  IF ~loaded THEN [returns |-> "raise", url |-> <<>>]
  ELSE IF ~form THEN [returns |-> "raise", url |-> <<"h", "LOGIN">>]
  ELSE LET url == IF Contains(Upper(submitted), LOGIN) THEN redirected ELSE submitted
       IN [returns |-> LoginCheck(url, timeout), url |-> url]

(***************************************************************************)
(* The state of one run of the program.                                    *)
(***************************************************************************)
VARIABLES
  start_year, start_month,  \* the start of the run, 0 until the arguments are read
  pc,                       \* where main is
  i,                        \* the index of the period, 0..2, 3 after the loop
  mail_elements,            \* the page extract_mail_data read for the period
  locals,                   \* per element of that page: outcome and family_name
                            \* (both kept until the period's records are appended)
  extracted_data, number_name_data, tsuim_name_data, zero_name_data,
  j,                        \* the next record of extracted_data to resolve
  all_extracted_data, all_number_name_data, all_tsuim_name_data, all_zero_name_data,
  time_slots,               \* the sections of the report
  report_generated,
  report_title,             \* the period the report is titled with: start and end
  scanned,                  \* the (year, month) of every call of extract_mail_data
  exit_code,                \* what main returns: 0, 1, or 2 while it runs
  seen,                     \* the number of fragments read so far
  driver,                   \* the browser session of main: "None", "open", "quit"
  window_handles,           \* the number of windows of the session
  focus,                    \* the window the driver is focused on
  current_url,              \* the URL of the page the session loaded last
  lookups,                  \* the URLs extract_contact_time was called with
  content_text,             \* what the latest call of extract_contact_time read
  exit_status               \* the exit status of the process, 2 while it runs

\* the lists and locals of the period
periodVars ==
  <<mail_elements, locals, extracted_data, number_name_data, tsuim_name_data,
    zero_name_data, j>>

\* the accumulated lists
allVars ==
  <<all_extracted_data, all_number_name_data, all_tsuim_name_data, all_zero_name_data>>

\* the browser session
browserVars == <<driver, window_handles, focus, current_url>>

vars ==
  <<start_year, start_month, pc, i, periodVars, allVars, time_slots,
    report_generated, report_title, scanned, exit_code, seen, browserVars, lookups, content_text,
    exit_status>>

\* exit_code while main has not returned, exit_status while the process runs
RUNNING == 2

\* target_month and target_year of period k
TargetMonthModulo(k) == (start_month + k) % 12

TargetMonth(k) == IF start_month + k > 12 THEN start_month + k - 12 ELSE start_month + k

TargetYear(k) == IF start_month + k > 12 THEN start_year + 1 ELSE start_year

\* main at p with the start (y, m) and the session d, nothing extracted yet
MainAt(p, y, m, d) ==
  /\ start_year = y
  /\ start_month = m
  /\ pc = p
  /\ i = 0
  /\ mail_elements = <<>>
  /\ locals = <<>>
  /\ extracted_data = <<>>
  /\ number_name_data = <<>>
  /\ tsuim_name_data = <<>>
  /\ zero_name_data = <<>>
  /\ j = 1
  /\ all_extracted_data = <<>>
  /\ all_number_name_data = <<>>
  /\ all_tsuim_name_data = <<>>
  /\ all_zero_name_data = <<>>
  /\ time_slots = [label \in SlotLabels |-> <<>>]
  /\ report_generated = FALSE
  /\ report_title = <<>>
  /\ scanned = <<>>
  /\ exit_code = RUNNING
  /\ seen = 0
  /\ driver = d
  /\ window_handles = (IF d = "open" THEN 1 ELSE 0)
  /\ focus = (IF d = "open" THEN 1 ELSE 0)
  /\ current_url = (IF d = "open" THEN HomeUrl ELSE <<>>)
  /\ lookups = <<>>
  /\ content_text = <<>>
  /\ exit_status = RUNNING

\* the process calls main
Init == MainAt("args", 0, 0, "None")

\* main reads the year and the month from the command line, or takes the
\* current date when there are no two arguments; an argument int() rejects
\* makes it return 1 before the session is set up
ParseArgs ==
  /\ pc = "args"
  /\ \E argv \in Argvs :
       IF Len(argv) >= 2
       THEN IF IsInt(argv[1]) /\ IsInt(argv[2])
            THEN /\ start_year' = ParseInt(argv[1])
                 /\ start_month' = ParseInt(argv[2])
                 /\ pc' = "setup"
                 /\ exit_code' = exit_code
            ELSE /\ pc' = "returned"
                 /\ exit_code' = 1
                 /\ UNCHANGED <<start_year, start_month>>
       ELSE /\ start_year' \in StartYears
            /\ start_month' \in StartMonths
            /\ pc' = "setup"
            /\ exit_code' = exit_code
  /\ UNCHANGED <<i, periodVars, allVars, time_slots, report_generated,
                 report_title, scanned, seen,
                 browserVars, lookups, content_text, exit_status>>

\* driver = setup_driver(): the session with its one window, or an exception
\* that main catches
SetupDriver ==
  /\ pc = "setup"
  /\ \/ /\ driver' = "open"
        /\ window_handles' = 1
        /\ focus' = 1
        /\ current_url' = <<>>
        /\ pc' = "login"
        /\ exit_code' = exit_code
     \/ /\ pc' = "finally"
        /\ exit_code' = 1
        /\ UNCHANGED browserVars
  /\ UNCHANGED <<start_year, start_month, i, periodVars, allVars, time_slots,
                 report_generated, report_title, scanned, seen, lookups, content_text, exit_status>>

\* auto_login(driver) returns True, or raises and main catches the exception
AutoLogin ==
  /\ pc = "login"
  /\ \E loaded \in BOOLEAN, form \in BOOLEAN, submitted \in Urls,
        redirected \in Urls, timeout \in Timeouts :
       \E r \in {auto_login(loaded, form, submitted, redirected, timeout)} :
         /\ current_url' = r.url
         /\ IF r.returns = "True"
            THEN /\ pc' = "extract"
                 /\ exit_code' = exit_code
            ELSE /\ pc' = "finally"
                 /\ exit_code' = 1
  /\ UNCHANGED <<start_year, start_month, i, periodVars, allVars, time_slots,
                 report_generated, report_title, scanned, seen, driver,
                 window_handles, focus, lookups, content_text, exit_status>>

\* the step to the next period, or out of the loop after the third
NextPeriodLeavesLoop ==
  /\ i' = i + 1
  /\ pc' = "total"

NextPeriod ==
  /\ i' = i + 1
  /\ pc' = IF i + 1 < 3 THEN "extract" ELSE "total"

\* main calls extract_mail_data for period i and page; a period without any
\* record is skipped
ExtractInto(page) ==
  /\ pc = "extract"
  /\ \E r \in {extract_mail_data(page, i, TargetMonth(i), Windows(window_handles, focus))} :
       /\ mail_elements' = page
       /\ locals' = r.locals
       /\ extracted_data' = r.extracted_data
       /\ number_name_data' = r.number_name_data
       /\ tsuim_name_data' = r.tsuim_name_data
       /\ zero_name_data' = r.zero_name_data
       /\ window_handles' = r.w.handles
       /\ focus' = r.w.focus
       /\ current_url' = mail_url
       /\ scanned' = Append(scanned, <<TargetYear(i), TargetMonth(i)>>)
       /\ seen' = seen + Len(page)
       /\ j' = 1
       /\ IF /\ r.extracted_data = <<>> /\ r.number_name_data = <<>>
             /\ r.tsuim_name_data = <<>> /\ r.zero_name_data = <<>>
          THEN NextPeriod
          ELSE /\ i' = i
               /\ pc' = IF r.extracted_data = <<>> THEN "stamp" ELSE "resolve"
  /\ UNCHANGED <<start_year, start_month, allVars, time_slots, report_generated,
                 report_title,
                 exit_code, driver, lookups, content_text, exit_status>>

ExtractMailData == \E page \in Pages(MaxMails - seen) : ExtractInto(page)

\* extract_mail_data raises (the mail list cannot be loaded): main catches
\* the exception and returns 1
ExtractRaisesReturnsZero ==
  /\ pc = "extract"
  /\ scanned' = Append(scanned, <<TargetYear(i), TargetMonth(i)>>)
  /\ pc' = "finally"
  /\ exit_code' = 0
  /\ UNCHANGED <<start_year, start_month, i, periodVars, allVars, time_slots,
                 report_generated, report_title, seen, browserVars, lookups,
                 content_text, exit_status>>

ExtractRaises ==
  /\ pc = "extract"
  /\ scanned' = Append(scanned, <<TargetYear(i), TargetMonth(i)>>)
  /\ pc' = "finally"
  /\ exit_code' = 1
  /\ UNCHANGED <<start_year, start_month, i, periodVars, allVars, time_slots,
                 report_generated, report_title, seen, browserVars, lookups, content_text,
                 exit_status>>

\* main calls extract_contact_time for record j of extracted_data, the call
\* reads page, and main stamps the record
ResolveWith(page) ==
  /\ pc = "resolve"
  /\ extracted_data' =
       [extracted_data EXCEPT ![j] =
          SetKey(SetKey(SetKey(@, "contact_time", extract_contact_time(page)),
                        "year", TargetYear(i)),
                 "month", TargetMonth(i))]
  /\ lookups' = Append(lookups, extracted_data[j].url)
  /\ content_text' = page
  /\ j' = j + 1
  /\ pc' = IF j = Len(extracted_data) THEN "stamp" ELSE "resolve"
  /\ UNCHANGED <<start_year, start_month, i, mail_elements, locals,
                 number_name_data, tsuim_name_data, zero_name_data, allVars,
                 time_slots, report_generated, report_title, scanned, exit_code, seen, browserVars,
                 exit_status>>

ResolveContactTime == \E page \in DetailPages : ResolveWith(page)

\* year, month and the default contact time of a record of the other buckets
StampedWithoutDefault(data) ==
  SetKey(SetKey(data, "year", TargetYear(i)), "month", TargetMonth(i))

StampedByMailMonth(data) ==
  SetKey(SetKey(SetKey(data, "year", TargetYear(i)), "month", data.mail_month),
         "contact_time", KISAI_NASHI)

Stamped(data) ==
  SetKey(SetKey(SetKey(data, "year", TargetYear(i)), "month", TargetMonth(i)),
         "contact_time", KISAI_NASHI)

\* main stamps the records of the three other buckets and extends the four
\* accumulated lists
StampAndExtend ==
  /\ pc = "stamp"
  /\ number_name_data' = [n \in 1..Len(number_name_data) |-> Stamped(number_name_data[n])]
  /\ tsuim_name_data' = [n \in 1..Len(tsuim_name_data) |-> Stamped(tsuim_name_data[n])]
  /\ zero_name_data' = [n \in 1..Len(zero_name_data) |-> Stamped(zero_name_data[n])]
  /\ all_extracted_data' = all_extracted_data \o extracted_data
  /\ all_number_name_data' = all_number_name_data \o number_name_data'
  /\ all_tsuim_name_data' = all_tsuim_name_data \o tsuim_name_data'
  /\ all_zero_name_data' = all_zero_name_data \o zero_name_data'
  /\ mail_elements' = <<>>
  /\ locals' = <<>>
  /\ content_text' = <<>>
  /\ NextPeriod
  /\ UNCHANGED <<start_year, start_month, extracted_data, j, time_slots,
                 report_generated, report_title, scanned, exit_code, seen, browserVars, lookups,
                 exit_status>>

total_count ==
  Len(all_extracted_data) + Len(all_number_name_data)
    + Len(all_tsuim_name_data) + Len(all_zero_name_data)

\* no record in any period: main returns 0 without a report
ReturnNoData ==
  /\ pc = "total"
  /\ total_count = 0
  /\ pc' = "finally"
  /\ exit_code' = 0
  /\ UNCHANGED <<start_year, start_month, i, periodVars, allVars, time_slots,
                 report_generated, report_title, scanned, seen, browserVars, lookups, content_text,
                 exit_status>>

\* main calls generate_html_report and returns 0.  The lists of the follow-up
\* and the zero section are the accumulated lists themselves when these are
\* not empty, and the records of data_list are changed in place.
GenerateHtmlReport ==
  /\ pc = "total"
  /\ total_count > 0
  /\ time_slots' = GroupedSlots(all_extracted_data, all_number_name_data,
                                all_tsuim_name_data, all_zero_name_data)
  /\ all_extracted_data' =
       [n \in 1..Len(all_extracted_data) |-> Normalised(all_extracted_data[n])]
  /\ all_tsuim_name_data' =
       IF all_tsuim_name_data = <<>> THEN <<>> ELSE time_slots'[TSUI_M]
  /\ all_zero_name_data' =
       IF all_zero_name_data = <<>> THEN <<>> ELSE time_slots'[TAIOU_FUYOU]
  /\ report_generated' = TRUE
  /\ report_title' = report_title_of(start_year, start_month)
  /\ pc' = "finally"
  /\ exit_code' = 0
  /\ UNCHANGED <<start_year, start_month, i, periodVars, all_number_name_data,
                 scanned, seen, browserVars, lookups, content_text, exit_status>>

\* the finally clause of main: cleanup_driver(driver).  With a session, the
\* storage and the cookies are cleared and the session is quit; an exception
\* of any of these calls ends the cleanup and is logged.
CleanupDriver ==
  /\ pc = "finally"
  /\ IF driver = "open"
     THEN \/ /\ driver' = "quit"
             /\ window_handles' = 0
             /\ focus' = 0
             /\ current_url' = <<>>
          \/ UNCHANGED browserVars
     ELSE UNCHANGED browserVars
  /\ pc' = "returned"
  /\ UNCHANGED <<start_year, start_month, i, periodVars, allVars, time_slots,
                 report_generated, report_title, scanned, exit_code, seen, lookups, content_text,
                 exit_status>>

\* main has returned to the module's last statement, which drops the value:
\* the interpreter ends with the status 0
ProcessExit ==
  /\ pc = "returned"
  /\ exit_status' = 0
  /\ pc' = "done"
  /\ UNCHANGED <<start_year, start_month, i, periodVars, allVars, time_slots,
                 report_generated, report_title, scanned, exit_code, seen, browserVars, lookups,
                 content_text>>

Next ==
  \/ ParseArgs
  \/ SetupDriver
  \/ AutoLogin
  \/ ExtractMailData
  \/ ExtractRaises
  \/ ResolveContactTime
  \/ StampAndExtend
  \/ ReturnNoData
  \/ GenerateHtmlReport
  \/ CleanupDriver
  \/ ProcessExit

Spec == Init /\ [][Next]_vars

\* the finally clause of main is executed whenever main leaves its try
\* statement: the cleanup is not postponed forever
SpecLive == Spec /\ WF_vars(CleanupDriver)

(***************************************************************************)
(* The name specification: main after the login of a run that starts in    *)
(* December; the first period's page is one fragment whose name is drawn   *)
(* from NameInputs, the two other pages are empty.                         *)
(***************************************************************************)
NamePages(n) ==
  IF n = 0
  THEN {<<Fragment(NameInput(lead, f, s1, s2, last), TRUE)>> :
          f \in Tokens(MaxFamilyLen), s1 \in {"sp", "fwsp"},
          s2 \in {<<>>, <<"sp">>, <<"fwsp">>}, last \in {"sama", "k"},
          lead \in {<<>>, <<"sp">>}}
  ELSE {<<>>}

ExtractNamePage == \E page \in NamePages(seen) : ExtractInto(page)

InitNames == MainAt("extract", 2024, 12, "open")

NextNames ==
  \/ ExtractNamePage
  \/ ResolveContactTime
  \/ StampAndExtend
  \/ GenerateHtmlReport

SpecNames == InitNames /\ [][NextNames]_vars

(***************************************************************************)
(* The period specification: main after the login of a run that starts in  *)
(* any month of two years; every period's page is empty or one fragment,   *)
(* with a plain name or with a day and a responder.                        *)
(***************************************************************************)
PeriodYears == {2024, 2025}
PeriodMonths == 1..12

PeriodPages(k) ==
  IF k < 3
  THEN {<<>>,
        <<Fragment(<<"k", "sp", "k", "sp", "sama">>, TRUE)>>,
        <<Mail(<<"k">>, <<"k", "5", "sp", "k", "sp", "sama">>, TRUE, <<"day", "time", "k">>)>>}
  ELSE {}

ExtractPeriodPage == \E page \in PeriodPages(i) : ExtractInto(page)

InitPeriods ==
  \E y \in PeriodYears, m \in PeriodMonths : MainAt("extract", y, m, "open")

NextPeriods ==
  \/ ExtractPeriodPage
  \/ ExtractRaises
  \/ ResolveContactTime
  \/ StampAndExtend
  \/ ReturnNoData
  \/ GenerateHtmlReport
  \/ CleanupDriver
  \/ ProcessExit

SpecPeriods == InitPeriods /\ [][NextPeriods]_vars

(***************************************************************************)
(* The resolver specification: main after the login of a run that starts   *)
(* in December; the first period's page is one fragment with a plain name, *)
(* the two other pages are empty, and the call-content text of its detail  *)
(* page is drawn from DetailTexts.                                         *)
(***************************************************************************)
TimesPages(n) ==
  IF n = 0 THEN {<<Fragment(<<"k", "sp", "k", "sp", "sama">>, TRUE)>>} ELSE {<<>>}

ExtractTimesPage == \E page \in TimesPages(seen) : ExtractInto(page)

ResolveContactText == \E page \in DetailTexts(Len(lookups)) : ResolveWith(page)

InitTimes == MainAt("extract", 2024, 12, "open")

NextTimes ==
  \/ ExtractTimesPage
  \/ ResolveContactText
  \/ StampAndExtend
  \/ GenerateHtmlReport

SpecTimes == InitTimes /\ [][NextTimes]_vars

(***************************************************************************)
(* Vocabulary of the properties.                                           *)
(***************************************************************************)
\* extract_mail_data has returned for the page in mail_elements and main has
\* not yet appended the period
ExtractReturned == pc \in {"resolve", "stamp"} \/ mail_elements /= <<>>

\* the number of records of a period list made from element n of the page
CountIn(list, n) == Cardinality({m \in DOMAIN list : list[m].url.pos = n})

Occurrences(n) ==
  CountIn(extracted_data, n) + CountIn(number_name_data, n)
    + CountIn(tsuim_name_data, n) + CountIn(zero_name_data, n)

\* the Name Pattern accepts the name of a fragment
NameAccepted(e) == NameSearch(Strip(e.name_src)).matched

\* every record of the four period lists comes from an element of the page
FromPage ==
  \A list \in {extracted_data, number_name_data, tsuim_name_data, zero_name_data} :
    \A m \in DOMAIN list : list[m].url.pos \in DOMAIN mail_elements

\* the family name the Name Pattern finds in the name of a record
FamilyOf(rec) == NameSearch(rec.name).family_name

\* a is discovered before b: earlier period, or same period and earlier on the page
DiscoveredBefore(a, b) ==
  \/ a.url.period < b.url.period
  \/ a.url.period = b.url.period /\ a.url.pos < b.url.pos

\* (year, month) of a is not after that of b
NotAfter(a, b) ==
  \/ a.year < b.year
  \/ a.year = b.year /\ a.month <= b.month

(***************************************************************************)
(* C1 as stated: every fragment of the page whose name the Name Pattern    *)
(* accepts is in exactly one of the four lists, every other fragment in    *)
(* none, and the lists hold nothing else.                                  *)
(***************************************************************************)
C1_PartitionOfAccepted ==
  ExtractReturned =>
    /\ FromPage
    /\ \A n \in DOMAIN mail_elements :
         Occurrences(n) = IF NameAccepted(mail_elements[n]) THEN 1 ELSE 0

(***************************************************************************)
(* C1 amended: every fragment that is read without an exception and whose  *)
(* name the Name Pattern accepts is in exactly one of the four lists; a    *)
(* fragment that raises or that the pattern rejects is in none; the lists  *)
(* hold nothing else.                                                      *)
(***************************************************************************)
C1_PartitionOfProcessed ==
  ExtractReturned =>
    /\ FromPage
    /\ \A n \in DOMAIN mail_elements :
         Occurrences(n) =
           IF locals[n].outcome /= "error" /\ NameAccepted(mail_elements[n]) THEN 1 ELSE 0

\* a page of two fragments with accepted names: one raises, one is classified
C1_Witness ==
  /\ pc = "resolve"
  /\ Len(mail_elements) = 2
  /\ \A n \in 1..2 : NameAccepted(mail_elements[n])
  /\ \E n \in 1..2 : ~mail_elements[n].anchor
  /\ Len(extracted_data) = 1

(***************************************************************************)
(* C2: a record whose family name holds the follow-up glyph is in the      *)
(* follow-up list and in no other, with or without digits in the name, and *)
(* once main has appended it its contact_time is the label of the          *)
(* "not stated" slot.                                                      *)
(***************************************************************************)
C2_FlaggedPrecedence ==
  /\ \A n \in DOMAIN locals :
       (locals[n].outcome \notin {"error", "nomatch"} /\ has_tsui(locals[n].family_name))
         => /\ CountIn(tsuim_name_data, n) = 1
            /\ CountIn(extracted_data, n) = 0
            /\ CountIn(number_name_data, n) = 0
            /\ CountIn(zero_name_data, n) = 0
  /\ \A list \in {all_extracted_data, all_number_name_data, all_zero_name_data} :
       \A m \in DOMAIN list : ~has_tsui(FamilyOf(list[m]))
  /\ \A m \in DOMAIN all_tsuim_name_data :
       has_tsui(FamilyOf(all_tsuim_name_data[m]))
         => Get(all_tsuim_name_data[m], "contact_time", <<>>) = KISAI_NASHI

\* a family name with the glyph and an ASCII digit, appended as follow-up
C2_Witness ==
  \E m \in DOMAIN all_tsuim_name_data :
    LET f == FamilyOf(all_tsuim_name_data[m]) IN
    /\ has_tsui(f)
    /\ \E x \in 1..Len(f) : f[x] = "5"
    /\ all_tsuim_name_data[m].contact_time = KISAI_NASHI

(***************************************************************************)
(* C3 as stated: a family name without the glyph that holds a digit and    *)
(* whose digits are all '0' is in the zero list and not in the numeric     *)
(* list.                                                                   *)
(***************************************************************************)
AllDigitsZero(f) ==
  /\ \E x \in 1..Len(f) : IsDigit(f[x])
  /\ \A x \in 1..Len(f) : IsDigit(f[x]) => f[x] = "0"

C3_ZeroOnlyRule ==
  \A n \in DOMAIN locals :
    (/\ locals[n].outcome \notin {"error", "nomatch"}
     /\ ~has_tsui(locals[n].family_name)
     /\ AllDigitsZero(locals[n].family_name))
      => /\ CountIn(zero_name_data, n) = 1
         /\ CountIn(number_name_data, n) = 0

(***************************************************************************)
(* C4 as stated: a family name without the glyph that holds a digit and is *)
(* not zero-only is in the numeric list, and its extracted_number is the   *)
(* value of the rightmost maximal run of digits of the name.               *)
(***************************************************************************)
\* the value of the digits at the end of f, read from the right
RECURSIVE TrailingRunValue(_)
TrailingRunValue(f) ==
  IF f = <<>> \/ ~IsDigit(f[Len(f)]) THEN 0
  ELSE 10 * TrailingRunValue(SubSeq(f, 1, Len(f) - 1)) + DigitVal(f[Len(f)])

\* the value of the rightmost run of digits of a name that holds a digit
RECURSIVE RightmostRunValue(_)
RightmostRunValue(f) ==
  IF IsDigit(f[Len(f)]) THEN TrailingRunValue(f)
  ELSE RightmostRunValue(SubSeq(f, 1, Len(f) - 1))

C4_NumericRule ==
  \A n \in DOMAIN locals :
    LET f == locals[n].family_name IN
    (/\ locals[n].outcome \notin {"error", "nomatch"}
     /\ ~has_tsui(f)
     /\ \E x \in 1..Len(f) : IsDigit(f[x])
     /\ ~AllDigitsZero(f))
      => /\ CountIn(number_name_data, n) = 1
         /\ \A m \in DOMAIN number_name_data :
              number_name_data[m].url.pos = n
                => number_name_data[m].extracted_number = RightmostRunValue(f)

(***************************************************************************)
(* C5 as stated: a name made of two tokens separated by one blank and      *)
(* directly followed by the honorific is accepted, its family_name is the  *)
(* first token, and a family name without digit and without the glyph puts *)
(* the record in the normal list.                                          *)
(***************************************************************************)
NoBlankIn(s, from, to) == \A x \in from..to : ~IsSpace(s[x])

\* s is <token of length a> <blank> <token> <honorific>
DirectForm(s, a) ==
  /\ a >= 1
  /\ a + 3 <= Len(s)
  /\ NoBlankIn(s, 1, a)
  /\ IsSpace(s[a + 1])
  /\ NoBlankIn(s, a + 2, Len(s) - 1)
  /\ s[Len(s)] = "sama"

\* s is <token of length a> <blank> <token> <blank> <honorific>
SpacedForm(s, a) ==
  /\ a >= 1
  /\ a + 4 <= Len(s)
  /\ NoBlankIn(s, 1, a)
  /\ IsSpace(s[a + 1])
  /\ NoBlankIn(s, a + 2, Len(s) - 2)
  /\ IsSpace(s[Len(s) - 1])
  /\ s[Len(s)] = "sama"

\* element n was accepted with the first a characters of s as family_name,
\* and is in the normal list when that name has no digit and no glyph
AcceptedWithFamily(n, s, a) ==
  LET f == SubSeq(s, 1, a) IN
  /\ locals[n].outcome \notin {"error", "nomatch"}
  /\ locals[n].family_name = f
  /\ (~has_tsui(f) /\ \A x \in 1..a : ~IsDigit(f[x]))
       => /\ locals[n].outcome = "normal"
          /\ CountIn(extracted_data, n) = 1

C6_NumericSectionAscending ==
  report_generated =>
    LET sec == time_slots[SUUJI_TSUKI] IN
    \A a, b \in DOMAIN sec :
      (a < b /\ HasKey(sec[a], "extracted_number") /\ HasKey(sec[b], "extracted_number"))
        => sec[a].extracted_number <= sec[b].extracted_number

\* a smaller day of a later month stands before a larger day of an earlier month
C6_Witness ==
  /\ report_generated
  /\ LET sec == time_slots[SUUJI_TSUKI] IN
     \E a, b \in DOMAIN sec :
       /\ a < b
       /\ sec[a].extracted_number < sec[b].extracted_number
       /\ ~NotAfter(sec[a], sec[b])

(***************************************************************************)
(* C7: two records of the numeric section with the same extracted_number   *)
(* stand in their discovery order.                                         *)
(***************************************************************************)
C7_NumericSortStable ==
  report_generated =>
    LET sec == time_slots[SUUJI_TSUKI] IN
    \A a, b \in DOMAIN sec :
      (/\ a < b
       /\ HasKey(sec[a], "extracted_number") /\ HasKey(sec[b], "extracted_number")
       /\ sec[a].extracted_number = sec[b].extracted_number)
        => DiscoveredBefore(sec[a], sec[b])

\* two records with the same number from one page in the report
C7_Witness ==
  /\ report_generated
  /\ LET sec == time_slots[SUUJI_TSUKI] IN
     \E a, b \in DOMAIN sec :
       /\ a < b
       /\ sec[a].extracted_number = sec[b].extracted_number
       /\ sec[a].url.period = sec[b].url.period

(***************************************************************************)
(* C8: in the report the records of the follow-up bucket and those of the  *)
(* zero bucket stand in discovery order, and none is missing.              *)
(***************************************************************************)
\* the positions of section sec that hold records the classifier put in bucket
OfBucket(sec, bucket) == {a \in DOMAIN sec : Classify(FamilyOf(sec[a])) = bucket}

InDiscoveryOrder(sec, bucket) ==
  \A a, b \in OfBucket(sec, bucket) : a < b => DiscoveredBefore(sec[a], sec[b])

C8_FlaggedAndZeroKeepOrder ==
  report_generated =>
    /\ InDiscoveryOrder(time_slots[TSUI_M], "tsuim")
    /\ InDiscoveryOrder(time_slots[TAIOU_FUYOU], "zero")
    /\ Cardinality(OfBucket(time_slots[TSUI_M], "tsuim"))
         = Cardinality(OfBucket(all_tsuim_name_data, "tsuim"))
    /\ Cardinality(OfBucket(time_slots[TAIOU_FUYOU], "zero"))
         = Cardinality(OfBucket(all_zero_name_data, "zero"))

\* follow-up records of December and of the January after it, and zero
\* records of two periods, in a report
C8_Witness ==
  /\ report_generated
  /\ \/ LET sec == time_slots[TSUI_M] IN
        \E a, b \in OfBucket(sec, "tsuim") :
          a < b /\ sec[a].month = 12 /\ sec[b].month = 1
     \/ LET sec == time_slots[TAIOU_FUYOU] IN
        \E a, b \in OfBucket(sec, "zero") :
          a < b /\ sec[a].month = 12 /\ sec[b].month = 1

(***************************************************************************)
(* C9: every section of normal records (the "not stated" slot, the time    *)
(* slots, the section of the others) is in ascending order of (year,       *)
(* month), and records of one period keep their discovery order.           *)
(***************************************************************************)
NormalSections == SlotLabels \ {SUUJI_TSUKI, TSUI_M, TAIOU_FUYOU}

C9_NormalSectionsByYearMonth ==
  report_generated =>
    \A label \in NormalSections :
      LET sec == time_slots[label] IN
      \A a, b \in DOMAIN sec :
        a < b => /\ NotAfter(sec[a], sec[b])
                 /\ sec[a].url.period = sec[b].url.period
                      => sec[a].url.pos < sec[b].url.pos

\* a section with a record of December before one of the January after it
C9_Witness ==
  /\ report_generated
  /\ \E label \in NormalSections :
       LET sec == time_slots[label] IN
       \E a, b \in DOMAIN sec :
         a < b /\ sec[a].month = 12 /\ sec[b].month = 1 /\ sec[a].year < sec[b].year

(***************************************************************************)
(* C10 as stated: once main has resolved a record of the normal list, its  *)
(* contact_time is present and is not the empty string.                    *)
(***************************************************************************)
C10_ContactTimeNeverEmpty ==
  \A m \in DOMAIN all_extracted_data :
    /\ HasKey(all_extracted_data[m], "contact_time")
    /\ all_extracted_data[m].contact_time /= <<>>

(***************************************************************************)
(* Vocabulary of the properties of the resolver.                           *)
(***************************************************************************)
\* main has the result of the latest call of extract_contact_time, made for
\* record j - 1 of the period, which read content_text
Resolved == pc \in {"resolve", "stamp"} /\ j > 1

LatestContactTime == extracted_data[j - 1].contact_time

\* the canonical labels in their priority order: anytime, then the hour
\* slots from 10-11 to 19-20
PriorityList == [n \in 1..11 |-> IF n = 1 THEN ITSUDEMO_KANOU ELSE Slot(n + 8)]

HasLabel(text) == \E p \in 1..Len(text) : text[p] = "L"

LabelPos(text) ==
  CHOOSE p \in 1..Len(text) : text[p] = "L" /\ \A q \in 1..(p - 1) : text[q] /= "L"

\* the first line break after the label, Len(text) + 1 when there is none
BreakPos(text) ==
  CHOOSE q \in (LabelPos(text) + 1)..(Len(text) + 1) :
    /\ q <= Len(text) => text[q] \in {"NL", "BR"}
    /\ \A x \in (LabelPos(text) + 1)..(q - 1) : text[x] \notin {"NL", "BR"}

\* the text of the label's line after the label
ValueOf(text) == SubSeq(text, LabelPos(text) + 1, BreakPos(text) - 1)

\* the canonical labels a value holds, as indexes of the priority list
LabelsIn(v) == {n \in 1..11 : Contains(v, PriorityList[n])}

(***************************************************************************)
(* C11: when the text between the contact-time label and the line break    *)
(* that follows it holds canonical labels, extract_contact_time returns    *)
(* the one that stands first in the priority list, wherever the labels     *)
(* stand in the text; the value '14-15' followed by a line break resolves  *)
(* to the slot 14-15.                                                      *)
(***************************************************************************)
C11_FirstOfPriorityList ==
  (Resolved /\ HasLabel(content_text) /\ BreakPos(content_text) <= Len(content_text))
    => LET v == ValueOf(content_text) IN
       /\ LabelsIn(v) /= {}
            => \E n \in LabelsIn(v) :
                 /\ \A m \in LabelsIn(v) : n <= m
                 /\ LatestContactTime = PriorityList[n]
       /\ v = Slot(14) => LatestContactTime = Slot(14)

\* the slot 14-15 stands before 'anytime' in the value, and 'anytime' is returned
C11_Witness ==
  /\ Resolved
  /\ HasLabel(content_text)
  /\ BreakPos(content_text) <= Len(content_text)
  /\ ValueOf(content_text) = Slot(14) \o ITSUDEMO_KANOU
  /\ LatestContactTime = ITSUDEMO_KANOU

(***************************************************************************)
(* C12 as stated: when the call-content text holds the contact-time label  *)
(* and the text of its line after the label holds no canonical label,      *)
(* extract_contact_time returns that text, trimmed, and not the value it   *)
(* returns when it resolves nothing, with or without a line break after    *)
(* the line.                                                               *)
(***************************************************************************)
C12_FreeTextKept ==
  (Resolved /\ HasLabel(content_text))
    => LET v == ValueOf(content_text) IN
       LabelsIn(v) = {}
         => /\ LatestContactTime = Strip(v)
            /\ LatestContactTime /= FUMEI

(***************************************************************************)
(* C13: extract_contact_time does not raise.  When the detail page cannot  *)
(* be loaded, the call-content cell is missing or times out, another       *)
(* exception occurs or the text of the cell has no contact-time label, it  *)
(* returns the value 'fumei', main stores it in the record with the year   *)
(* and the month, and goes on with the next normal record of the period    *)
(* (or with the other buckets after the last one).                         *)
(***************************************************************************)
C13_ResolverNeverRaises ==
  (Resolved /\ (content_text = <<"error">> \/ ~HasLabel(content_text)))
    => /\ LatestContactTime = FUMEI
       /\ HasKey(extracted_data[j - 1], "year")
       /\ HasKey(extracted_data[j - 1], "month")
       /\ exit_code = RUNNING
       /\ pc = IF j <= Len(extracted_data) THEN "resolve" ELSE "stamp"

\* the lookup of the first of two normal records failed, the second is next
C13_Witness ==
  /\ pc = "resolve"
  /\ j = 2
  /\ Len(extracted_data) = 2
  /\ content_text = <<"error">>
  /\ extracted_data[1].contact_time = FUMEI
  /\ ~HasKey(extracted_data[2], "contact_time")

(***************************************************************************)
(* C14: extract_contact_time is called for the records of the normal       *)
(* bucket only, once for each: no URL is looked up twice, every URL looked *)
(* up is that of a normal record, no URL of a numeric, follow-up or zero   *)
(* record is looked up, every accumulated normal record has been looked    *)
(* up, and every accumulated record of the three other buckets has the     *)
(* default contact_time 'kisai_nashi', the label of the report's section   *)
(* of records without a stated time.                                       *)
(***************************************************************************)
\* the bucket the classifier puts the name of a record in
BucketOf(rec) == Classify(FamilyOf(rec))

LookedUp(rec) == \E a \in DOMAIN lookups : lookups[a] = rec.url

C14_ResolverForNormalOnly ==
  /\ \A a, b \in DOMAIN lookups : a /= b => lookups[a] /= lookups[b]
  /\ \A a \in DOMAIN lookups :
       \E list \in {extracted_data, all_extracted_data} :
         \E m \in DOMAIN list :
           list[m].url = lookups[a] /\ BucketOf(list[m]) = "normal"
  /\ \A list \in {number_name_data, tsuim_name_data, zero_name_data,
                  all_number_name_data, all_tsuim_name_data, all_zero_name_data} :
       \A m \in DOMAIN list : BucketOf(list[m]) /= "normal" => ~LookedUp(list[m])
  /\ \A m \in DOMAIN all_extracted_data : LookedUp(all_extracted_data[m])
  /\ \A list \in {all_number_name_data, all_tsuim_name_data, all_zero_name_data} :
       \A m \in DOMAIN list :
         BucketOf(list[m]) /= "normal"
           => Get(list[m], "contact_time", <<>>) = KISAI_NASHI

\* a finished run with a normal record, looked up, and a numeric record with
\* the default
C14_Witness ==
  /\ pc = "done"
  /\ exit_code = 0
  /\ Len(lookups) = 1
  /\ Len(all_extracted_data) = 1
  /\ Len(all_number_name_data) = 1
  /\ all_number_name_data[1].contact_time = KISAI_NASHI

(***************************************************************************)
(* C15: every record of the four accumulated lists has the year and the    *)
(* month of the period it was fetched under, whatever month its mail text  *)
(* names.                                                                  *)
(***************************************************************************)
C15_StampedWithPeriod ==
  \A list \in {all_extracted_data, all_number_name_data,
               all_tsuim_name_data, all_zero_name_data} :
    \A m \in DOMAIN list :
      /\ Get(list[m], "year", 0) = TargetYear(list[m].url.period)
      /\ Get(list[m], "month", 0) = TargetMonth(list[m].url.period)

\* a normal and a follow-up record fetched under January of the next year
\* whose texts name the month 5
C15_Witness ==
  /\ \E m \in DOMAIN all_extracted_data :
       /\ all_extracted_data[m].mail_month = 5
       /\ all_extracted_data[m].month = 1
       /\ all_extracted_data[m].year = start_year + 1
  /\ \E m \in DOMAIN all_tsuim_name_data :
       /\ BucketOf(all_tsuim_name_data[m]) = "tsuim"
       /\ all_tsuim_name_data[m].mail_month = 5
       /\ all_tsuim_name_data[m].month = 1

(***************************************************************************)
(* C16: when extract_mail_data returns four empty lists for a period, main *)
(* makes no contact-time lookup for it, leaves the four accumulated lists  *)
(* as they are and goes on with the next period (or leaves the loop after  *)
(* the third); when the three periods are empty main returns 0 and no      *)
(* report is generated.                                                    *)
(***************************************************************************)
\* the periods the accumulated records were fetched under
AccumulatedPeriods ==
  UNION {{list[m].url.period : m \in DOMAIN list} :
           list \in {all_extracted_data, all_number_name_data,
                     all_tsuim_name_data, all_zero_name_data}}

C16_EmptyPeriodSkipped ==
  /\ [][(/\ pc = "extract"
         /\ pc' /= "finally"
         /\ extracted_data' = <<>>
         /\ number_name_data' = <<>>
         /\ tsuim_name_data' = <<>>
         /\ zero_name_data' = <<>>)
          => /\ lookups' = lookups
             /\ UNCHANGED allVars
             /\ i' = i + 1
             /\ pc' = IF i < 2 THEN "extract" ELSE "total"]_vars
  /\ []((pc \in {"finally", "returned", "done"} /\ i = 3 /\ total_count = 0)
          => (exit_code = 0 /\ ~report_generated))

\* a report of a run whose second period was empty and skipped
C16_Witness ==
  /\ report_generated
  /\ exit_code = 0
  /\ AccumulatedPeriods = {0, 2}

(***************************************************************************)
(* C17 as stated: the exit status of the process is 0 when main completes  *)
(* successfully (with a report or without any record) and is not 0 when    *)
(* main ends on an error: arguments that are no integers, a failure of the *)
(* session set-up or of the login, or an exception that main catches.      *)
(***************************************************************************)
C17_ExitStatus ==
  pc = "done" => (exit_status = 0 <=> exit_code = 0)

(***************************************************************************)
(* C18 as stated: whenever main has returned after it created the browser  *)
(* session (after a report, without any record, after a failed login or    *)
(* after an exception), the session has been quit, also when clearing the  *)
(* storage or the cookies failed during the cleanup.                       *)
(***************************************************************************)
C18_SessionReleased ==
  (pc \in {"returned", "done"} /\ driver /= "None") => driver = "quit"

(***************************************************************************)
(* C19 as stated: when extract_mail_data has returned, every fragment of   *)
(* the page has the outcome it has when it is processed on its own (an     *)
(* exception raised for another fragment changes nothing for it), and a    *)
(* fragment whose processing raised is in none of the four lists.          *)
(***************************************************************************)
\* the outcome of a fragment processed on its own, in the one window of a
\* fresh session
OutcomeAlone(e) == ProcessElement(e, 0, 1, 1, 1, Windows(1, 1)).outcome

C19_FragmentFailureIsolated ==
  ExtractReturned =>
    \A n \in DOMAIN mail_elements :
      /\ locals[n].outcome = OutcomeAlone(mail_elements[n])
      /\ locals[n].outcome = "error" => Occurrences(n) = 0

(***************************************************************************)
(* C20 as stated: the name stored in a record of any of the four lists     *)
(* holds no honorific and neither starts nor ends with a blank.            *)
(***************************************************************************)
C20_NameWithoutHonorific ==
  \A list \in {extracted_data, number_name_data, tsuim_name_data, zero_name_data} :
    \A m \in DOMAIN list :
      LET name == list[m].name IN
      /\ \A x \in 1..Len(name) : name[x] /= "sama"
      /\ name /= <<>> => (~IsSpace(name[1]) /\ ~IsSpace(name[Len(name)]))

(***************************************************************************)
(* C21: classification is deterministic and depends only on the fragment.  *)
(* Before the report is built, any two records made from the same name     *)
(* text, in the lists of the period or in the accumulated lists, of any    *)
(* period and any position, are in the lists of the same bucket, and when  *)
(* that bucket is the numeric one they carry the same extracted_number.    *)
(***************************************************************************)
ListsOfBucket(bucket) ==
  CASE bucket = "normal" -> {extracted_data, all_extracted_data}
    [] bucket = "number" -> {number_name_data, all_number_name_data}
    [] bucket = "tsuim" -> {tsuim_name_data, all_tsuim_name_data}
    [] OTHER -> {zero_name_data, all_zero_name_data}

\* the classifications made so far: name, bucket, period, extracted_number
\* (0 where the record has none)
ClassificationsIn(list, bucket) ==
  {[name |-> list[m].name, bucket |-> bucket, period |-> list[m].url.period,
    number |-> IF HasKey(list[m], "extracted_number")
               THEN list[m].extracted_number ELSE 0] : m \in DOMAIN list}

Classifications ==
  UNION {UNION {ClassificationsIn(list, bucket) : list \in ListsOfBucket(bucket)} :
           bucket \in {"normal", "number", "tsuim", "zero"}}

AccumulatedRecords ==
  UNION {{list[m] : m \in DOMAIN list} :
           list \in {all_extracted_data, all_number_name_data,
                     all_tsuim_name_data, all_zero_name_data}}

C22_RecordsFrozen ==
  [][\A r \in AccumulatedRecords :
       \A r2 \in AccumulatedRecords' : r2.url = r.url => r2 = r]_vars

(***************************************************************************)
(* C23: main scans exactly three periods, in order: the start month and    *)
(* the two calendar months after it.  For every start month 1..12 the      *)
(* n-th call of extract_mail_data is for the n-th of these months, its     *)
(* month is in 1..12 and its year is one more than the start year exactly  *)
(* when the month passed December; no period is extracted twice, and the   *)
(* loop is left after the third call.                                      *)
(***************************************************************************)
\* the calendar month k months after (y, m)
MonthsAfter(y, m, k) == <<y + ((m - 1 + k) \div 12), ((m - 1 + k) % 12) + 1>>

C23_ThreePeriodsInOrder ==
  /\ Len(scanned) <= 3
  /\ \A n \in DOMAIN scanned :
       /\ scanned[n] = MonthsAfter(start_year, start_month, n - 1)
       /\ scanned[n][2] \in 1..12
       /\ scanned[n][1] = (IF start_month + n - 1 > 12 THEN start_year + 1 ELSE start_year)
  /\ pc = "extract" => i < 3 /\ Len(scanned) = i
  /\ pc = "total" => i = 3 /\ Len(scanned) = 3
  /\ pc \in {"finally", "returned", "done"} /\ exit_code = 0 => Len(scanned) = 3

\* a run from November that scanned its three periods, the last in the next year
C23_Witness ==
  /\ start_month = 11
  /\ pc = "total"
  /\ scanned = <<<<start_year, 11>>, <<start_year, 12>>, <<start_year + 1, 1>>>>

(***************************************************************************)
(* C24: the fallback 999 is unreachable.  Every element classified numeric *)
(* has a family name that holds a digit, its record carries the value of   *)
(* the rightmost run of digits of that name, and so carries 999 only when  *)
(* that run reads 999.                                                     *)
(***************************************************************************)
C24_SentinelUnreachable ==
  \A n \in DOMAIN locals :
    locals[n].outcome = "number" =>
      LET f == locals[n].family_name IN
      /\ \E x \in 1..Len(f) : IsAsciiDigit(f[x])
      /\ \A m \in DOMAIN number_name_data :
           number_name_data[m].url.pos = n =>
             /\ number_name_data[m].extracted_number = RightmostRunValue(f)
             /\ number_name_data[m].extracted_number = 999 =>
                  \E p \in 1..(Len(f) - 2) :
                    /\ SubSeq(f, p, p + 2) = <<"9", "9", "9">>
                    /\ \A x \in (p + 3)..Len(f) : ~IsDigit(f[x])

\* the family name 999 is classified numeric and carries the number 999
C24_Witness ==
  \E n \in DOMAIN locals :
    /\ locals[n].outcome = "number"
    /\ locals[n].family_name = <<"9", "9", "9">>
    /\ \E m \in DOMAIN number_name_data :
         /\ number_name_data[m].url.pos = n
         /\ number_name_data[m].extracted_number = 999

(***************************************************************************)
(* C25 as stated: in the grouping of the report, the numeric, the          *)
(* follow-up and the zero section hold only records of the numeric, the    *)
(* follow-up and the zero bucket; no record of the normal list is in one   *)
(* of them, whatever its contact time is.                                  *)
(***************************************************************************)
BucketOfSection(label) ==
  CASE label = SUUJI_TSUKI -> "number" [] label = TSUI_M -> "tsuim" [] OTHER -> "zero"

C26_OneWindowBetweenFragments ==
  (driver = "open" /\ scanned /= <<>>) => window_handles = 1 /\ focus = 1

(***************************************************************************)
(* C27: generate_html_report places every record of the four accumulated   *)
(* lists in exactly one section.  In the step that builds the report, each *)
(* record the lists held before the step, known by its URL, is at exactly  *)
(* one place of one section, and the sizes of the sections add up to the   *)
(* total count main logged before the call.                                *)
(***************************************************************************)
\* the places of the sections ts: label and index
SectionPlaces(ts) == UNION {{<<label, m>> : m \in DOMAIN ts[label]} : label \in SlotLabels}

PlacesOf(ts, url) == {p \in SectionPlaces(ts) : ts[p[1]][p[2]].url = url}

C27_EveryRecordInOneSection ==
  [][(~report_generated /\ report_generated') =>
       /\ Cardinality(SectionPlaces(time_slots')) = total_count
       /\ \A r \in AccumulatedRecords : Cardinality(PlacesOf(time_slots', r.url)) = 1
       /\ \A p \in SectionPlaces(time_slots') :
            \E r \in AccumulatedRecords : r.url = time_slots'[p[1]][p[2]].url]_vars

\* a report with a numeric record and a record with a free-text contact time
C27_Witness ==
  /\ report_generated
  /\ Len(time_slots[SUUJI_TSUKI]) = 1
  /\ Len(time_slots[SONOTA]) = 1
  /\ Cardinality(SectionPlaces(time_slots)) = 2

(***************************************************************************)
(* C28: when extract_mail_data raises for a period, main returns 1, scans  *)
(* no further period and generates no report, also when earlier periods    *)
(* left records in the accumulated lists, and the cleanup of the session   *)
(* still runs.                                                             *)
(***************************************************************************)
C28_ExtractFailureEndsRun ==
  /\ [][(pc = "extract" /\ pc' = "finally") =>
          /\ exit_code' = 1
          /\ ~report_generated'
          /\ UNCHANGED allVars]_vars
  /\ [][exit_code = 1 =>
          /\ exit_code' = 1
          /\ scanned' = scanned
          /\ ~report_generated'
          /\ pc' \in {"finally", "returned", "done"}]_vars
  /\ ((pc = "finally" /\ exit_code = 1 /\ scanned /= <<>>) ~> (pc = "returned"))

\* main has returned 1 after the second period raised, with a record of the
\* first period accumulated and no report
C28_Witness ==
  /\ pc = "returned"
  /\ exit_code = 1
  /\ Len(scanned) = 2
  /\ all_extracted_data /= <<>>
  /\ ~report_generated

(***************************************************************************)
(* C29 as stated: auto_login returns True only when the URL the session    *)
(* shows after the form was submitted, and after the one manual redirect   *)
(* when there was one, does not contain LOGIN in any case of letters; in   *)
(* every other case it raises, main returns 1 and no period is scanned.    *)
(***************************************************************************)
C29_LoginTrueOnlyOffLoginPage ==
  [][pc = "login" =>
       IF pc' = "extract"
       THEN ~Contains(Upper(current_url'), LOGIN)
       ELSE pc' = "finally" /\ exit_code' = 1 /\ scanned' = <<>>]_vars

(***************************************************************************)
(* C30: for every start year and every start month 1..12, the end year and *)
(* month of the title generate_html_report computes are the year and month *)
(* of the third period main scanned, also when the three months cross the  *)
(* end of the year.                                                        *)
(***************************************************************************)
C30_TitleEndsAtThirdPeriod ==
  report_generated =>
    /\ Len(scanned) = 3
    /\ Len(report_title) = 4
    /\ <<report_title[1], report_title[2]>> = scanned[1]
    /\ <<report_title[3], report_title[4]>> = scanned[3]

\* reports of runs that start in November and in December of a year: they
\* end in January and in February of the next
C30_Witness ==
  /\ report_generated
  /\ start_month \in {11, 12}
  /\ report_title = <<start_year, start_month, start_year + 1, start_month - 10>>
  /\ scanned[3] = <<start_year + 1, start_month - 10>>

====
